---- MODULE Spec2Model ----
(***************************************************************************)
(* A model of api/index.py: the /decrypt and /upload request handlers and  *)
(* the pure functions they call.  Text is a sequence of one-character      *)
(* strings; the characters modelled are ASCII (letters, digits, space and  *)
(* punctuation), so str.isalpha and str.upper act as they do on ASCII.     *)
(***************************************************************************)
EXTENDS Integers, Sequences, FiniteSets, TLC

VARIABLES
    \* advanced_vigenere_decrypt called on its own
    original, mode, ciphertext, vkey, shift, plaintext, cpc,
    \* check_solution_complexity called on its own
    stext, skey, sresult, spc,
    \* POST /decrypt
    dreq, dresp,
    \* extract_frequency_domain_data called on its own
    fdata, frate, fresult, ffailed, fpc,
    \* the wall clock and extract_complex_metadata
    clock, ciphers, calledAt, prevQuaternary, elapsed, gap,
    \* POST /upload
    upc, ufile, tmpfile, uwave, ulayers, ufreq, uspectro, uciphers,
    ufailed, uresp

cipherVars == <<original, mode, ciphertext, vkey, shift, plaintext, cpc>>
scoreVars == <<stext, skey, sresult, spc>>
decryptVars == <<dreq, dresp>>
freqVars == <<fdata, frate, fresult, ffailed, fpc>>
clockVars == <<clock, ciphers, calledAt, prevQuaternary, elapsed, gap>>
uploadVars == <<upc, ufile, tmpfile, uwave, ulayers, ufreq, uspectro,
                uciphers, ufailed, uresp>>
vars == <<cipherVars, scoreVars, decryptVars, freqVars, clockVars, uploadVars>>

(***************************************************************************)
(* Bounds of the model.                                                    *)
(***************************************************************************)
MaxLen == 3
MaxKeyLen == 2
MaxPieces == 2
MaxN == 3
SubPerHour == 2
MaxElapsed == 2

(***************************************************************************)
(* Characters: ord, chr, str.isalpha, str.upper, str.strip.                *)
(***************************************************************************)
Upper26 == <<"A", "B", "C", "D", "E", "F", "G", "H", "I", "J", "K", "L", "M",
             "N", "O", "P", "Q", "R", "S", "T", "U", "V", "W", "X", "Y", "Z">>

Lower26 == <<"a", "b", "c", "d", "e", "f", "g", "h", "i", "j", "k", "l", "m",
             "n", "o", "p", "q", "r", "s", "t", "u", "v", "w", "x", "y", "z">>

\* the other characters the model uses, with their code points
Others == {<<" ", 32>>, <<"-", 45>>, <<"1", 49>>, <<"_", 95>>, <<"{", 123>>,
           <<"}", 125>>}

IsUpper(c) == \E i \in 1..26 : Upper26[i] = c

IsLower(c) == \E i \in 1..26 : Lower26[i] = c

\* char.isalpha()
IsAlpha(c) == IsUpper(c) \/ IsLower(c)

\* ord(char)
Ord(c) ==
    IF IsUpper(c) THEN 64 + (CHOOSE i \in 1..26 : Upper26[i] = c)
    ELSE IF IsLower(c) THEN 96 + (CHOOSE i \in 1..26 : Lower26[i] = c)
    ELSE (CHOOSE p \in Others : p[1] = c)[2]

\* chr(n), for the code points of the upper-case letters
Chr(n) == Upper26[n - 64]

\* char.upper()
UpperChar(c) ==
    IF IsLower(c) THEN Upper26[CHOOSE i \in 1..26 : Lower26[i] = c] ELSE c

\* text.upper()
Upper(s) == [i \in 1..Len(s) |-> UpperChar(s[i])]

RECURSIVE LStrip(_)
LStrip(s) == IF s # <<>> /\ Head(s) = " " THEN LStrip(Tail(s)) ELSE s

RECURSIVE RStrip(_)
RStrip(s) ==
    IF s # <<>> /\ s[Len(s)] = " " THEN RStrip(SubSeq(s, 1, Len(s) - 1)) ELSE s

\* text.strip()
Strip(s) == RStrip(LStrip(s))

\* needle in text
Contains(text, needle) ==
    \E i \in 0..(Len(text) - Len(needle)) :
        SubSeq(text, i + 1, i + Len(needle)) = needle

\* all sequences over S of length at most n
SeqsUpTo(S, n) == UNION {[1..k -> S] : k \in 0..n}

(***************************************************************************)
(* advanced_vigenere_decrypt                                               *)
(***************************************************************************)
OrdA == 65

\* the Caesar pass: one character
CaesarChar(char, caesar_shift) ==
    IF IsAlpha(char)
    THEN Chr(((Ord(UpperChar(char)) - OrdA - caesar_shift) % 26) + OrdA)
    ELSE char

CaesarPass(text, caesar_shift) ==
    [i \in 1..Len(text) |-> CaesarChar(text[i], caesar_shift)]

\* the Vigenere pass: the loop over caesar_decrypted, carrying key_index
RECURSIVE VigenereLoop(_, _, _, _)
VigenereLoop(rest, key, key_index, acc) ==
    IF rest = <<>> THEN acc
    ELSE LET char == Head(rest) IN
         IF IsAlpha(char)
         THEN LET c == Ord(UpperChar(char)) - OrdA
                  k == Ord(key[(key_index % Len(key)) + 1]) - OrdA
                  p == (c - k) % 26
              IN VigenereLoop(Tail(rest), key, key_index + 1,
                              Append(acc, Chr(p + OrdA)))
         ELSE VigenereLoop(Tail(rest), key, key_index, Append(acc, char))

\* as VigenereLoop, but every character moves the key index on
RECURSIVE VigenereLoopAdvanceAll(_, _, _, _)
VigenereLoopAdvanceAll(rest, key, key_index, acc) ==
    IF rest = <<>> THEN acc
    ELSE LET char == Head(rest) IN
         IF IsAlpha(char)
         THEN LET c == Ord(UpperChar(char)) - OrdA
                  k == Ord(key[(key_index % Len(key)) + 1]) - OrdA
                  p == (c - k) % 26
              IN VigenereLoopAdvanceAll(Tail(rest), key, key_index + 1,
                                        Append(acc, Chr(p + OrdA)))
         ELSE VigenereLoopAdvanceAll(Tail(rest), key, key_index + 1,
                                     Append(acc, char))

VigenerePassAdvanceAll(text, key) ==
    VigenereLoopAdvanceAll(text, Upper(key), 0, <<>>)

VigenerePass(text, key) == VigenereLoop(text, Upper(key), 0, <<>>)

AdvancedVigenereSkipCaesar(text, key, caesar_shift) ==
    IF text = <<>> \/ key = <<>> THEN <<>> ELSE VigenerePass(text, key)

advanced_vigenere_decrypt(text, key, caesar_shift) ==
    IF text = <<>> \/ key = <<>> THEN <<>>
    ELSE VigenerePass(CaesarPass(text, caesar_shift), key)

\* The encryption a caller applies before sending: each letter moved forward
\* by the cycled key letter and by the shift; other characters kept.
RECURSIVE EncryptLoop(_, _, _, _, _)
EncryptLoop(rest, key, caesar_shift, key_index, acc) ==
    IF rest = <<>> THEN acc
    ELSE LET char == Head(rest) IN
         IF IsAlpha(char)
         THEN LET p == Ord(UpperChar(char)) - OrdA
                  k == Ord(UpperChar(key[(key_index % Len(key)) + 1])) - OrdA
              IN EncryptLoop(Tail(rest), key, caesar_shift, key_index + 1,
                             Append(acc, Chr(((p + k + caesar_shift) % 26) + OrdA)))
         ELSE EncryptLoop(Tail(rest), key, caesar_shift, key_index,
                          Append(acc, char))

Encrypt(text, key, caesar_shift) ==
    IF key = <<>> THEN text ELSE EncryptLoop(text, key, caesar_shift, 0, <<>>)

TextChars == {"A", "Z", "b", "-"}

KeyChars == {"B", "y", "1"}

Shifts == {-1, 3, 29}

Texts == SeqsUpTo(TextChars, MaxLen) \cup {<<"A", "B", "-", "C", "D">>}

Keys == SeqsUpTo(KeyChars, MaxKeyLen) \cup {<<"X", "Y">>}

CipherInit ==
    /\ original \in Texts
    /\ vkey \in Keys
    /\ shift \in Shifts
    /\ mode \in {"raw", "encrypted"}
    /\ ciphertext = IF mode = "encrypted" THEN Encrypt(original, vkey, shift)
                    ELSE original
    /\ plaintext = <<>>
    /\ cpc = "ready"

CipherIdle ==
    /\ original = <<>> /\ vkey = <<>> /\ shift = 3 /\ mode = "raw"
    /\ ciphertext = <<>> /\ plaintext = <<>> /\ cpc = "idle"

CallVigenereDecrypt ==
    /\ cpc = "ready"
    /\ plaintext' = advanced_vigenere_decrypt(ciphertext, vkey, shift)
    /\ cpc' = "done"
    /\ UNCHANGED <<original, mode, ciphertext, vkey, shift>>
    /\ UNCHANGED <<scoreVars, decryptVars, freqVars, clockVars, uploadVars>>

(***************************************************************************)
(* check_solution_complexity                                               *)
(***************************************************************************)
success_indicators == {
    <<"F", "L", "A", "G", "{">>,
    <<"C", "T", "F", "{">>,
    <<"E", "T", "E", "R", "N", "A">>,
    <<"G", "H", "O", "S", "T">>,
    <<"G", "I", "R", "A", "T", "I", "N", "A">>,
    <<"D", "I", "S", "T", "O", "R", "T", "I", "O", "N">>,
    <<"W", "O", "R", "L", "D">>,
    <<"P", "L", "A", "T", "I", "N", "U", "M">>,
    <<"S", "I", "N", "N", "O", "H">>}

pokemon_names == {
    <<"G", "I", "R", "A", "T", "I", "N", "A">>,
    <<"D", "I", "A", "L", "G", "A">>,
    <<"P", "A", "L", "K", "I", "A">>,
    <<"A", "R", "C", "E", "U", "S">>,
    <<"D", "A", "R", "K", "R", "A", "I">>,
    <<"C", "R", "E", "S", "S", "E", "L", "I", "A">>,
    <<"R", "O", "T", "O", "M">>,
    <<"S", "P", "I", "R", "I", "T", "O", "M", "B">>}

IndicatorPoints == 10

KeyPoints == 5

SuccessThreshold == 15

Score(decrypted_text, pokemon_key) ==
    (IF \E indicator \in success_indicators :
            Contains(Upper(decrypted_text), indicator)
     THEN IndicatorPoints ELSE 0)
    + (IF Upper(pokemon_key) \in pokemon_names THEN KeyPoints ELSE 0)

CheckSolutionEitherSuffices(decrypted_text, pokemon_key) ==
    Score(decrypted_text, pokemon_key) >= KeyPoints

check_solution_complexity(decrypted_text, pokemon_key) ==
    Score(decrypted_text, pokemon_key) >= SuccessThreshold

\* fragments the scored texts are put together from
Pieces == {<<"G", "I", "R", "A", "T", "I", "N", "A">>,
           <<"g", "h", "o", "s", "t">>,
           <<"G", "I", "R", "A", "T", "I", "N">>,
           <<"F", "L", "A", "G", "{">>,
           <<"F", "L", "A", "G">>,
           <<"W", "o", "R", "l", "D">>,
           <<"A">>,
           <<"x", "-">>}

RECURSIVE PieceTexts(_)
PieceTexts(n) ==
    IF n = 0 THEN {<<>>}
    ELSE PieceTexts(n - 1)
         \cup {t \o p : t \in PieceTexts(n - 1), p \in Pieces}

ScoreKeys == {<<>>,
              <<"G", "I", "R", "A", "T", "I", "N", "A">>,
              <<"g", "i", "r", "a", "t", "i", "n", "a">>,
              <<"P", "I", "K", "A", "C", "H", "U">>,
              <<"A", "R", "C", "E", "U", "S">>,
              <<"A", "R", "C", "E", "U", "S", "X">>,
              <<"R", "o", "t", "o", "m">>,
              <<"G", "H", "O", "S", "T">>}

ScoreInit ==
    /\ stext \in PieceTexts(MaxPieces)
    /\ skey \in ScoreKeys
    /\ sresult = FALSE
    /\ spc = "ready"

ScoreIdle == stext = <<>> /\ skey = <<>> /\ sresult = FALSE /\ spc = "idle"

CallCheckSolution ==
    /\ spc = "ready"
    /\ sresult' = check_solution_complexity(stext, skey)
    /\ spc' = "done"
    /\ UNCHANGED <<stext, skey>>
    /\ UNCHANGED <<cipherVars, decryptVars, freqVars, clockVars, uploadVars>>

(***************************************************************************)
(* POST /decrypt                                                           *)
(***************************************************************************)
DefaultShift == 3

\* JSON values a client may send as caesar_shift
ShiftValues == {[kind |-> "absent", v |-> 0],
                [kind |-> "int", v |-> 3],
                [kind |-> "int", v |-> -1],
                [kind |-> "numstr", v |-> 29],
                [kind |-> "float", v |-> 5],
                [kind |-> "float", v |-> -1],
                [kind |-> "badstr", v |-> 0],
                [kind |-> "null", v |-> 0]}

\* int(x): an int as it is, a numeric string parsed, a float (v halves)
\* truncated toward zero; ValueError or TypeError otherwise
IntConv(x) ==
    CASE x.kind = "int" -> [ok |-> TRUE, v |-> x.v]
      [] x.kind = "numstr" -> [ok |-> TRUE, v |-> x.v]
      [] x.kind = "float" ->
            [ok |-> TRUE,
             v |-> IF x.v >= 0 THEN x.v \div 2 ELSE -((-x.v) \div 2)]
      [] OTHER -> [ok |-> FALSE, v |-> 0]

\* data.get(name, default)
Get(field, default) == IF field.present THEN field.v ELSE default

Present(v) == [present |-> TRUE, v |-> v]

Absent == [present |-> FALSE, v |-> <<>>]

RequestTexts == {Absent, Present(<<>>), Present(<<"A", "B", "-", "C", "D">>),
                 Present(<<"b", "Z">>),
                 Present(Encrypt(<<"G", "H", "O", "S", "T">>,
                                 <<"R", "O", "T", "O", "M">>, 3))}

RequestKeys == {Absent, Present(<<>>), Present(<<" ", " ">>),
                Present(<<"X", "Y">>), Present(<<" ", "r", "o", "t", "o", "m">>),
                Present(<<"P", "I", "K", "A", "C", "H", "U", " ">>)}

Requests == {[cipher_text |-> t, key |-> k, caesar_shift |-> s] :
                t \in RequestTexts, k \in RequestKeys, s \in ShiftValues}

NoResponse == [status |-> 0]

Unhandled == [status |-> 500, error |-> "unhandled exception"]

DecryptBody(cipher_text, key, caesar_shift) ==
    LET decrypted == advanced_vigenere_decrypt(cipher_text, key, caesar_shift)
        success == check_solution_complexity(decrypted, key)
    IN [status |-> 200, success |-> TRUE, decrypted_message |-> decrypted,
        congratulations |-> success,
        complexity_score |-> IF success THEN "High" ELSE "Partial",
        hint |-> IF ~success
                 THEN "Try different cipher types and Caesar shifts if unsuccessful."
                 ELSE ""]

\* the handler, in the order of its statements
decrypt_cipher(data) ==
    LET cipher_text == Get(data.cipher_text, <<>>)
        key == Upper(Strip(Get(data.key, <<>>)))
        shiftArg == IF data.caesar_shift.kind = "absent"
                    THEN [kind |-> "int", v |-> DefaultShift]
                    ELSE data.caesar_shift
        caesar_shift == IntConv(shiftArg)
    IN IF ~caesar_shift.ok THEN Unhandled
       ELSE IF cipher_text = <<>> \/ key = <<>>
       THEN [status |-> 400, error |-> "Missing cipher text or key"]
       ELSE DecryptBody(cipher_text, key, caesar_shift.v)

DecryptInit == dreq \in Requests /\ dresp = NoResponse

DecryptIdle ==
    /\ dreq = [cipher_text |-> Absent, key |-> Absent,
               caesar_shift |-> [kind |-> "absent", v |-> 0]]
    /\ dresp = [status |-> -1]

HandleDecrypt ==
    /\ dresp = NoResponse
    /\ dresp' = decrypt_cipher(dreq)
    /\ UNCHANGED dreq
    /\ UNCHANGED <<cipherVars, scoreVars, freqVars, clockVars, uploadVars>>

(***************************************************************************)
(* extract_frequency_domain_data.  The FFT is a library call: its phase    *)
(* angles are an input of the model, each given as h, the angle in units   *)
(* of 1/2000 radian, so that phase * 1000 = h / 2.                         *)
(***************************************************************************)
target_freqs == <<440, 880, 1320, 1760>>

FreqFallback == <<0, 1, 0, 1>>

Abs(x) == IF x >= 0 THEN x ELSE -x

\* int(x) for x = h / 2: truncation toward zero
IntOfHalves(h) == IF h >= 0 THEN h \div 2 ELSE -((-h) \div 2)

PhaseBitSigned(h) ==
    IF h >= 0 THEN IntOfHalves(h) % 2 ELSE -((-IntOfHalves(h)) % 2)

\* int(phase[bin_idx] * 1000) % 2
PhaseBit(h) == IntOfHalves(h) % 2

BinNumberNoWrap(i, n) == i

\* np.fft.fftfreq(n, 1/sample_rate)[i], times n / sample_rate
BinNumber(i, n) == IF i <= (n - 1) \div 2 THEN i ELSE i - n

\* n * abs(freq_bins[i] - freq)
BinDistance(i, n, sample_rate, freq) ==
    Abs(BinNumber(i, n) * sample_rate - freq * n)

\* np.argmin(np.abs(freq_bins - freq)): the first index of the least distance
ArgminBin(n, sample_rate, freq) ==
    CHOOSE i \in 0..(n - 1) :
        /\ \A j \in 0..(n - 1) :
              BinDistance(i, n, sample_rate, freq)
                  <= BinDistance(j, n, sample_rate, freq)
        /\ \A j \in 0..(i - 1) :
              BinDistance(j, n, sample_rate, freq)
                  > BinDistance(i, n, sample_rate, freq)

\* the loop over target_freqs.  With more than one channel phase[bin_idx] is
\* a row of angles (the model keeps the first one only) and int() of it
\* raises TypeError, which the except clause turns into the fallback
RECURSIVE FreqLoop(_, _, _, _)
FreqLoop(freqs, data, sample_rate, hidden_data) ==
    IF freqs = <<>> THEN [failed |-> FALSE, value |-> hidden_data]
    ELSE LET bin_idx == ArgminBin(data.n, sample_rate, Head(freqs)) IN
         IF bin_idx < Len(data.phase)
         THEN IF data.channels > 1
              THEN [failed |-> TRUE, value |-> FreqFallback]
              ELSE FreqLoop(Tail(freqs), data, sample_rate,
                            Append(hidden_data, PhaseBit(data.phase[bin_idx + 1])))
         ELSE FreqLoop(Tail(freqs), data, sample_rate, hidden_data)

\* fft of an empty array raises ValueError, 1/sample_rate raises
\* ZeroDivisionError when sample_rate is 0
extract_frequency_domain_data(data, sample_rate) ==
    IF data.n = 0 \/ sample_rate = 0
    THEN [failed |-> TRUE, value |-> FreqFallback]
    ELSE FreqLoop(target_freqs, data, sample_rate, <<>>)

PhaseHalves == {-6283, -3, -2, -1, 0, 1, 4}

SampleRates == {0, 1320, 2640, 44100}

FreqInputs ==
    {[n |-> Len(ph), channels |-> 1, phase |-> ph] :
        ph \in SeqsUpTo(PhaseHalves, MaxN)}
    \cup {[n |-> k, channels |-> 2, phase |-> [i \in 1..k |-> 1]] :
            k \in 1..MaxN}

FreqInit ==
    /\ fdata \in FreqInputs
    /\ frate \in SampleRates
    /\ fresult = <<>>
    /\ ffailed = FALSE
    /\ fpc = "ready"

FreqIdle ==
    /\ fdata = [n |-> 0, channels |-> 1, phase |-> <<>>]
    /\ frate = 0 /\ fresult = <<>> /\ ffailed = FALSE /\ fpc = "idle"

CallExtractFrequency ==
    /\ fpc = "ready"
    /\ LET r == extract_frequency_domain_data(fdata, frate) IN
         /\ fresult' = r.value
         /\ ffailed' = r.failed
    /\ fpc' = "done"
    /\ UNCHANGED <<fdata, frate>>
    /\ UNCHANGED <<cipherVars, scoreVars, decryptVars, clockVars, uploadVars>>

(***************************************************************************)
(* extract_complex_metadata and the wall clock it reads                    *)
(***************************************************************************)
Digits == <<"0", "1", "2", "3", "4", "5", "6", "7", "8", "9">>

\* f"{x:02d}" for 0 <= x <= 99
Format02d(x) == Digits[(x \div 10) + 1] \o Digits[(x % 10) + 1]

DefaultTertiary == "WLPH_EDVHG_HQFULSWLRQ"

HourModulus == 13

tag_keys == <<"TIT2", "TALB", "TPE1", "TCON">>

\* what WAVE(file_path) gives: an exception, no tags, or tags: a mapping from
\* some of the keys to their first text; "bad" marks a frame whose [0] raises
TagOutcomes == {[kind |-> "raises", tags |-> <<>>],
                [kind |-> "none", tags |-> <<>>],
                [kind |-> "tags", tags |-> <<>>],
                [kind |-> "tags", tags |-> <<<<"TIT2", "AB">>>>],
                [kind |-> "tags", tags |-> <<<<"TCON", "CD">>, <<"TIT2", "AB">>>>],
                [kind |-> "tags", tags |-> <<<<"TALB", "">>>>],
                [kind |-> "tags", tags |-> <<<<"TIT2", "AB">>, <<"TPE1", "bad">>>>]}

HasTag(tags, key) == \E i \in 1..Len(tags) : tags[i][1] = key

TagValue(tags, key) == tags[CHOOSE i \in 1..Len(tags) : tags[i][1] = key][2]

RECURSIVE TagLoop(_, _, _)
TagLoop(keys, tags, cipher_from_metadata) ==
    IF keys = <<>> THEN [failed |-> FALSE, value |-> cipher_from_metadata]
    ELSE IF HasTag(tags, Head(keys))
    THEN IF TagValue(tags, Head(keys)) = "bad"
         THEN [failed |-> TRUE, value |-> ""]
         ELSE TagLoop(Tail(keys), tags,
                      cipher_from_metadata \o TagValue(tags, Head(keys)))
    ELSE TagLoop(Tail(keys), tags, cipher_from_metadata)

\* the try block: the text read from the tags, "" when there is none
ReadTags(outcome) ==
    IF outcome.kind = "raises" THEN [failed |-> TRUE, value |-> ""]
    ELSE IF outcome.kind = "none" \/ outcome.tags = <<>>
    THEN [failed |-> FALSE, value |-> ""]
    ELSE TagLoop(tag_keys, outcome.tags, "")

QuaternaryWithSub(now) == "WLPH_VKLIW_" \o Format02d((now.hour + now.sub) % HourModulus)

QuaternaryPlainHour(now) == "WLPH_VKLIW_" \o Format02d(now.hour)

Quaternary(now) == "WLPH_VKLIW_" \o Format02d(now.hour % HourModulus)

extract_complex_metadata(now, outcome) ==
    LET read == ReadTags(outcome) IN
    [primary |-> "NKOOR_IURP_JLUDWLQD_UHDOP",
     secondary |-> "FDHVDU_FLSKHU_ZLWK_NHBZRUG",
     tertiary |-> IF ~read.failed /\ read.value # "" THEN read.value
                  ELSE DefaultTertiary,
     quaternary |-> Quaternary(now)]

TagsFailed(outcome) == ReadTags(outcome).failed

NoCiphers == [primary |-> "", secondary |-> "", tertiary |-> "", quaternary |-> ""]

ClockInit ==
    /\ clock \in {[hour |-> h, sub |-> 0] : h \in 0..23}
    /\ ciphers = NoCiphers
    /\ calledAt = -1
    /\ prevQuaternary = ""
    /\ elapsed = 0
    /\ gap = -1

ClockIdle ==
    /\ clock = [hour |-> 0, sub |-> 0] /\ ciphers = NoCiphers /\ calledAt = -1
    /\ prevQuaternary = "" /\ elapsed = 0 /\ gap = -1

\* the wall clock moves on; elapsed counts the hour boundaries passed since
\* the last call, up to MaxElapsed
Tick ==
    /\ clock' = IF clock.sub + 1 < SubPerHour
                THEN [clock EXCEPT !.sub = clock.sub + 1]
                ELSE [hour |-> (clock.hour + 1) % 24, sub |-> 0]
    /\ elapsed' = IF clock.sub + 1 < SubPerHour \/ elapsed = MaxElapsed
                  THEN elapsed ELSE elapsed + 1
    /\ UNCHANGED <<ciphers, calledAt, prevQuaternary, gap>>
    /\ UNCHANGED <<cipherVars, scoreVars, decryptVars, freqVars, uploadVars>>

\* an upload request reaches extract_complex_metadata
CallExtractMetadata ==
    /\ \E outcome \in TagOutcomes :
          ciphers' = extract_complex_metadata(clock, outcome)
    /\ calledAt' = clock.hour
    /\ prevQuaternary' = ciphers.quaternary
    /\ gap' = IF calledAt = -1 THEN -1 ELSE elapsed
    /\ elapsed' = 0
    /\ UNCHANGED clock
    /\ UNCHANGED <<cipherVars, scoreVars, decryptVars, freqVars, uploadVars>>

(***************************************************************************)
(* extract_multi_lsb_audio and generate_advanced_spectrogram               *)
(***************************************************************************)
LayerAmplitude == 16383

Pow2(b) == IF b = 0 THEN 1 ELSE IF b = 1 THEN 2 ELSE 4

\* x.astype(np.int16) of the quotient s / c: truncation toward zero
TruncDiv(s, c) == IF s >= 0 THEN s \div c ELSE -((-s) \div c)

RECURSIVE SumSeq(_)
SumSeq(row) == IF row = <<>> THEN 0 ELSE Head(row) + SumSeq(Tail(row))

\* np.mean(data, axis=1).astype(np.int16) when data has more than one axis
Mono(wave) ==
    IF wave.channels > 1
    THEN [i \in 1..Len(wave.samples) |->
             TruncDiv(SumSeq(wave.samples[i]), wave.channels)]
    ELSE [i \in 1..Len(wave.samples) |-> wave.samples[i][1]]

\* one layer: ((data >> bit_pos) & 1) * 2 - 1, times 16383 >> bit_pos
Layer(data, bit_pos) ==
    [i \in 1..Len(data) |->
        (((data[i] \div Pow2(bit_pos)) % 2) * 2 - 1)
            * (LayerAmplitude \div Pow2(bit_pos))]

\* >> on an array of floats raises TypeError
extract_multi_lsb_audio(wave) ==
    IF wave.dtype = "float32" THEN [failed |-> TRUE, layers |-> <<>>]
    ELSE [failed |-> FALSE,
          layers |-> [b \in 0..2 |-> Layer(Mono(wave), b)]]

MissingImage == "<no key>"

\* the dictionary after the first k of the three renderings
Rendered(k) ==
    [primary |-> IF k >= 1 THEN "png:primary" ELSE MissingImage,
     high_res |-> IF k >= 2 THEN "png:high_res" ELSE MissingImage,
     phase |-> IF k >= 3 THEN "png:phase" ELSE MissingImage]

EmptyImages == [primary |-> "", high_res |-> "", phase |-> ""]

SpectrogramKeepPartial(audio_data, sample_rate, failAt) ==
    IF failAt = 0 THEN Rendered(3)
    ELSE [primary |-> IF failAt > 1 THEN "png:primary" ELSE "",
          high_res |-> IF failAt > 2 THEN "png:high_res" ELSE "",
          phase |-> ""]

\* failAt: the rendering (1, 2 or 3) in which the plotting library raises,
\* 0 when none does
generate_advanced_spectrogram(audio_data, sample_rate, failAt) ==
    IF failAt = 0 THEN Rendered(3) ELSE EmptyImages

(***************************************************************************)
(* POST /upload, one action per statement of the handler                   *)
(***************************************************************************)
\* what wavfile.read may decode: rate, samples (one row of channel values per
\* frame), and the phase angles of the FFT of the data
Waves == {
    [rate |-> 2640, channels |-> 1, dtype |-> "int16",
     samples |-> <<<<5>>, <<-2>>, <<0>>>>, phase |-> <<0, -3, 4>>],
    [rate |-> 0, channels |-> 1, dtype |-> "int16",
     samples |-> <<<<1>>, <<-1>>>>, phase |-> <<0, 0>>],
    [rate |-> 1320, channels |-> 2, dtype |-> "int16",
     samples |-> <<<<-3, 0>>, <<4, 5>>>>, phase |-> <<1, 1>>],
    [rate |-> 2640, channels |-> 1, dtype |-> "float32",
     samples |-> <<<<0>>, <<1>>>>, phase |-> <<0, -1>>]}

NoWave == [rate |-> 0, channels |-> 1, dtype |-> "int16",
           samples |-> <<>>, phase |-> <<>>]

FreqData(wave) ==
    [n |-> Len(wave.samples), channels |-> wave.channels, phase |-> wave.phase]

FileKinds == {"absent", "empty name", "song.mp3", "SONG.WAV", "song.wav"}

EndsWithWav(name) == name \in {"SONG.WAV", "song.wav"}

OuterSteps == {"mktemp", "save", "read", "lsb", "unlink"}

Error400(msg) == [status |-> 400, error |-> msg]

Error500 == [status |-> 500, error |-> "Processing failed"]

UploadInit ==
    /\ upc = "validate"
    /\ ufile \in FileKinds
    /\ tmpfile = "none"
    /\ uwave = NoWave
    /\ ulayers = <<>>
    /\ ufreq = <<>>
    /\ uspectro = EmptyImages
    /\ uciphers = NoCiphers
    /\ ufailed = {}
    /\ uresp = NoResponse

UploadIdle ==
    /\ upc = "idle" /\ ufile = "absent" /\ tmpfile = "none" /\ uwave = NoWave
    /\ ulayers = <<>> /\ ufreq = <<>> /\ uspectro = EmptyImages
    /\ uciphers = NoCiphers /\ ufailed = {} /\ uresp = NoResponse

UploadOthers == <<cipherVars, scoreVars, decryptVars, freqVars, clockVars>>

\* the except clause of the handler: respond 500; nothing else is done
Raise(step) ==
    /\ ufailed' = ufailed \cup {step}
    /\ uresp' = Error500
    /\ upc' = "done"

UploadValidate ==
    /\ upc = "validate"
    /\ IF ufile = "absent"
       THEN uresp' = Error400("No file uploaded") /\ upc' = "done"
       ELSE IF ufile = "empty name"
       THEN uresp' = Error400("No file selected") /\ upc' = "done"
       ELSE IF ~EndsWithWav(ufile)
       THEN uresp' = Error400("Only WAV files are accepted") /\ upc' = "done"
       ELSE uresp' = uresp /\ upc' = "mktemp"
    /\ UNCHANGED <<ufile, tmpfile, uwave, ulayers, ufreq, uspectro, uciphers,
                   ufailed>>
    /\ UNCHANGED UploadOthers

\* tempfile.NamedTemporaryFile(suffix='.wav', delete=False)
UploadCreateTemp ==
    /\ upc = "mktemp"
    /\ \E ok \in BOOLEAN :
          IF ok
          THEN /\ tmpfile' = "exists" /\ upc' = "save"
               /\ UNCHANGED <<ufailed, uresp>>
          ELSE Raise("mktemp") /\ UNCHANGED tmpfile
    /\ UNCHANGED <<ufile, uwave, ulayers, ufreq, uspectro, uciphers>>
    /\ UNCHANGED UploadOthers

\* file.save(tmp_file.name)
UploadSave ==
    /\ upc = "save"
    /\ \E ok \in BOOLEAN :
          IF ok THEN upc' = "read" /\ UNCHANGED <<ufailed, uresp>>
          ELSE Raise("save")
    /\ UNCHANGED <<ufile, tmpfile, uwave, ulayers, ufreq, uspectro, uciphers>>
    /\ UNCHANGED UploadOthers

\* sample_rate, data = wavfile.read(tmp_file.name)
UploadRead ==
    /\ upc = "read"
    /\ \/ \E wave \in Waves :
             /\ uwave' = wave /\ upc' = "lsb"
             /\ UNCHANGED <<ufailed, uresp>>
       \/ Raise("read") /\ UNCHANGED uwave
    /\ UNCHANGED <<ufile, tmpfile, ulayers, ufreq, uspectro, uciphers>>
    /\ UNCHANGED UploadOthers

\* lsb_layers = extract_multi_lsb_audio(data, [0, 1, 2])
UploadLsb ==
    /\ upc = "lsb"
    /\ LET r == extract_multi_lsb_audio(uwave) IN
          IF r.failed THEN Raise("lsb") /\ UNCHANGED ulayers
          ELSE /\ ulayers' = r.layers /\ upc' = "freq"
               /\ UNCHANGED <<ufailed, uresp>>
    /\ UNCHANGED <<ufile, tmpfile, uwave, ufreq, uspectro, uciphers>>
    /\ UNCHANGED UploadOthers

\* freq_data = extract_frequency_domain_data(data, sample_rate)
UploadFreq ==
    /\ upc = "freq"
    /\ LET r == extract_frequency_domain_data(FreqData(uwave), uwave.rate) IN
          /\ ufreq' = r.value
          /\ ufailed' = IF r.failed THEN ufailed \cup {"freq"} ELSE ufailed
    /\ upc' = "spectro"
    /\ UNCHANGED <<ufile, tmpfile, uwave, ulayers, uspectro, uciphers, uresp>>
    /\ UNCHANGED UploadOthers

\* spectrograms = generate_advanced_spectrogram(lsb_layers['layer_0'], sample_rate)
UploadSpectro ==
    /\ upc = "spectro"
    /\ \E failAt \in 0..3 :
          /\ uspectro' = generate_advanced_spectrogram(ulayers[0], uwave.rate,
                                                       failAt)
          /\ ufailed' = IF failAt # 0 THEN ufailed \cup {"spectro"} ELSE ufailed
    /\ upc' = "meta"
    /\ UNCHANGED <<ufile, tmpfile, uwave, ulayers, ufreq, uciphers, uresp>>
    /\ UNCHANGED UploadOthers

\* ciphers = extract_complex_metadata(tmp_file.name)
UploadMeta ==
    /\ upc = "meta"
    /\ \E outcome \in TagOutcomes :
          /\ uciphers' = extract_complex_metadata(clock, outcome)
          /\ ufailed' = IF TagsFailed(outcome) THEN ufailed \cup {"tags"}
                        ELSE ufailed
    /\ upc' = "unlink"
    /\ UNCHANGED <<ufile, tmpfile, uwave, ulayers, ufreq, uspectro, uresp>>
    /\ UNCHANGED UploadOthers

\* os.unlink(tmp_file.name)
UploadUnlink ==
    /\ upc = "unlink"
    /\ \E ok \in BOOLEAN :
          IF ok
          THEN /\ tmpfile' = "deleted" /\ upc' = "respond"
               /\ UNCHANGED <<ufailed, uresp>>
          ELSE Raise("unlink") /\ UNCHANGED tmpfile
    /\ UNCHANGED <<ufile, uwave, ulayers, ufreq, uspectro, uciphers>>
    /\ UNCHANGED UploadOthers

\* return jsonify({...})
UploadRespond ==
    /\ upc = "respond"
    /\ uresp' = [status |-> 200, success |-> TRUE, spectrograms |-> uspectro,
                 ciphers |-> uciphers, frequency_data |-> ufreq]
    /\ upc' = "done"
    /\ UNCHANGED <<ufile, tmpfile, uwave, ulayers, ufreq, uspectro, uciphers,
                   ufailed>>
    /\ UNCHANGED UploadOthers

(***************************************************************************)
(* Specifications                                                          *)
(***************************************************************************)
\* POST /decrypt
Init == DecryptInit /\ CipherIdle /\ ScoreIdle /\ FreqIdle /\ ClockIdle /\ UploadIdle

Next == HandleDecrypt

Spec == Init /\ [][Next]_vars

\* advanced_vigenere_decrypt
InitCipher ==
    CipherInit /\ DecryptIdle /\ ScoreIdle /\ FreqIdle /\ ClockIdle /\ UploadIdle

NextCipher == CallVigenereDecrypt

SpecCipher == InitCipher /\ [][NextCipher]_vars

\* check_solution_complexity
InitScore ==
    ScoreInit /\ DecryptIdle /\ CipherIdle /\ FreqIdle /\ ClockIdle /\ UploadIdle

NextScore == CallCheckSolution

SpecScore == InitScore /\ [][NextScore]_vars

\* extract_frequency_domain_data
InitFreq ==
    FreqInit /\ DecryptIdle /\ CipherIdle /\ ScoreIdle /\ ClockIdle /\ UploadIdle

NextFreq == CallExtractFrequency

SpecFreq == InitFreq /\ [][NextFreq]_vars

\* extract_complex_metadata under a moving clock
InitClock ==
    ClockInit /\ DecryptIdle /\ CipherIdle /\ ScoreIdle /\ FreqIdle /\ UploadIdle

NextClock == Tick \/ CallExtractMetadata

SpecClock == InitClock /\ [][NextClock]_vars

\* POST /upload, the clock read at any hour
InitUpload ==
    /\ UploadInit /\ DecryptIdle /\ CipherIdle /\ ScoreIdle /\ FreqIdle
    /\ clock \in {[hour |-> h, sub |-> 0] : h \in 0..23}
    /\ ciphers = NoCiphers /\ calledAt = -1 /\ prevQuaternary = ""
    /\ elapsed = 0 /\ gap = -1

NextUpload ==
    \/ UploadValidate
    \/ UploadCreateTemp
    \/ UploadSave
    \/ UploadRead
    \/ UploadLsb
    \/ UploadFreq
    \/ UploadSpectro
    \/ UploadMeta
    \/ UploadUnlink
    \/ UploadRespond

SpecUpload == InitUpload /\ [][NextUpload]_vars

(***************************************************************************)
(* Properties                                                              *)
(***************************************************************************)
GIRATINA == <<"G", "I", "R", "A", "T", "I", "N", "A">>

PIKACHU == <<"P", "I", "K", "A", "C", "H", "U">>

HasIndicator(text) ==
    \E i \in 1..(Len(text) + 1), j \in 0..Len(text) :
        SubSeq(Upper(text), i, j) \in success_indicators

KeyAllowed(key) == \E name \in pokemon_names : Upper(key) = name

\* C1: check_solution_complexity succeeds exactly when the upper-cased text
\* contains a success substring and the upper-cased key is an allowed key.
C1_SuccessIffBoth ==
    spc = "done" => (sresult <=> (HasIndicator(stext) /\ KeyAllowed(skey)))

C1_Witness ==
    /\ spc = "done"
    /\ Contains(stext, GIRATINA)
    /\ skey = PIKACHU
    /\ sresult = FALSE

\* C2: every /decrypt request whose key is the empty string is answered 400,
\* whatever the other fields are.
C2_EmptyKeyAnswered400 ==
    (dresp.status > 0 /\ dreq.key = Present(<<>>)) => dresp.status = 400

\* C3: once an upload request that created its temporary file has been
\* answered, the temporary file has been deleted.
C3_TempFileDeletedOnEveryPath ==
    (upc = "done" /\ tmpfile # "none") => tmpfile = "deleted"

AllAlpha(text) == \A i \in 1..Len(text) : IsAlpha(text[i])

\* the number of alphabetic characters of text before position pos
AlphaBefore(text, pos) == Cardinality({j \in 1..(pos - 1) : IsAlpha(text[j])})

LetterOf(n) == Upper26[(n % 26) + 1]

\* C4: non-alphabetic characters keep their value and position, and the i-th
\* alphabetic character is shifted back by the shift and by key letter
\* i mod len(key).
C4_KeyAdvancesOnLettersOnly ==
    (cpc = "done" /\ ciphertext # <<>> /\ vkey # <<>>) =>
        /\ Len(plaintext) = Len(ciphertext)
        /\ \A pos \in 1..Len(ciphertext) :
              IF IsAlpha(ciphertext[pos])
              THEN LET i == AlphaBefore(ciphertext, pos)
                       keyChar == UpperChar(vkey[(i % Len(vkey)) + 1])
                   IN plaintext[pos] =
                        LetterOf(Ord(UpperChar(ciphertext[pos])) - shift
                                 - Ord(keyChar))
              ELSE plaintext[pos] = ciphertext[pos]

C4_Witness ==
    /\ cpc = "done"
    /\ ciphertext = <<"A", "B", "-", "C", "D">>
    /\ vkey = <<"X", "Y">>
    /\ shift = 3
    /\ plaintext = <<"A", "A", "-", "C", "C">>

\* C5: decrypting the encryption of a non-empty alphabetic text, with the
\* same non-empty alphabetic key and the same shift, gives the text in upper
\* case.
C5_RoundTrip ==
    (/\ cpc = "done" /\ mode = "encrypted"
     /\ original # <<>> /\ AllAlpha(original)
     /\ vkey # <<>> /\ AllAlpha(vkey)) => plaintext = Upper(original)

C5_Witness ==
    /\ cpc = "done" /\ mode = "encrypted"
    /\ original = <<"b", "Z", "A">>
    /\ vkey = <<"B", "y">>
    /\ shift = 29
    /\ ciphertext # original
    /\ plaintext = <<"B", "Z", "A">>

TwoDigits == <<"00", "01", "02", "03", "04", "05", "06", "07", "08", "09", "10",
               "11", "12", "13", "14", "15", "16", "17", "18", "19", "20",
               "21", "22", "23">>

LiteralFields ==
    /\ ciphers.primary = "NKOOR_IURP_JLUDWLQD_UHDOP"
    /\ ciphers.secondary = "FDHVDU_FLSKHU_ZLWK_NHBZRUG"

\* C6 as stated: the quaternary field is the prefix followed by the hour of
\* the call itself, 00 to 23, and primary and secondary are their literals.
C6_QuaternaryIsHour ==
    calledAt >= 0 =>
        /\ ciphers.quaternary = "WLPH_VKLIW_" \o TwoDigits[calledAt + 1]
        /\ LiteralFields

\* C6 as amended: the quaternary field is the prefix followed by the hour of
\* the call modulo 13, 00 to 12 (hours 13 to 23 give 00 to 10), and primary
\* and secondary are their literals.
C6_QuaternaryIsHourMod13 ==
    calledAt >= 0 =>
        /\ ciphers.quaternary
             = "WLPH_VKLIW_"
                 \o TwoDigits[(IF calledAt < 13 THEN calledAt ELSE calledAt - 13) + 1]
        /\ LiteralFields

C6_Witness ==
    /\ calledAt = 17
    /\ ciphers.quaternary = "WLPH_VKLIW_04"
    /\ ciphers.tertiary = "ABCD"

\* C7: of two successive requests, the quaternary fields are equal when no
\* hour boundary lies between them and differ when exactly one does.
C7_ChangesAtEachHourBoundary ==
    gap >= 0 =>
        /\ gap = 0 => ciphers.quaternary = prevQuaternary
        /\ gap = 1 => ciphers.quaternary # prevQuaternary

C7_Witness ==
    /\ gap = 1
    /\ calledAt = 0
    /\ prevQuaternary = "WLPH_VKLIW_10"
    /\ ciphers.quaternary = "WLPH_VKLIW_00"

\* C8: for an input of at least one sample the result has exactly four
\* values, each 0 or 1; a sample rate of 0 or a multi-channel array takes the
\* failure path, and the failure path gives exactly [0, 1, 0, 1].
C8_FourBinaryValues ==
    (fpc = "done" /\ fdata.n >= 1) =>
        /\ Len(fresult) = 4
        /\ \A i \in 1..Len(fresult) : fresult[i] \in {0, 1}
        /\ (frate = 0 \/ fdata.channels > 1) => ffailed
        /\ ffailed => fresult = <<0, 1, 0, 1>>

C8_Witness ==
    /\ fpc = "done"
    /\ fdata.n = 2 /\ fdata.channels = 2 /\ frate = 1320
    /\ ffailed
    /\ fresult = <<0, 1, 0, 1>>

\* bin b is one of the bins nearest freq on the axis k * rate / n, k running
\* over 0 .. ceil(n/2)-1 and then -floor(n/2) .. -1
AxisTimesN(b) == (IF 2 * b < fdata.n THEN b ELSE b - fdata.n) * frate

IsNearestBin(b, freq) ==
    \A other \in 0..(fdata.n - 1) :
        Abs(AxisTimesN(b) - freq * fdata.n)
            <= Abs(AxisTimesN(other) - freq * fdata.n)

\* the integer part of h / 2: the floor, or the floor plus one, whichever
\* lies between zero and h / 2
TowardZero(h) ==
    CHOOSE t \in {h \div 2, (h \div 2) + 1} :
        2 * Abs(t) <= Abs(h) /\ Abs(h) < 2 * Abs(t) + 2

\* C10 as stated: on the non-failing path each bit is floor(v) mod 2, v the
\* phase times 1000 at a bin nearest the target frequency.
C10_BitIsFloorMod2 ==
    (fpc = "done" /\ ~ffailed) =>
        \A j \in 1..4 :
            \E b \in 0..(fdata.n - 1) :
                /\ IsNearestBin(b, target_freqs[j])
                /\ fresult[j] = (fdata.phase[b + 1] \div 2) % 2

\* C10 as amended: on the non-failing path each bit is trunc(v) mod 2, trunc
\* rounding toward zero, v the phase times 1000 at a bin nearest the target
\* frequency.
C10_BitIsTruncMod2 ==
    (fpc = "done" /\ ~ffailed) =>
        \A j \in 1..4 :
            \E b \in 0..(fdata.n - 1) :
                /\ IsNearestBin(b, target_freqs[j])
                /\ fresult[j] = TowardZero(fdata.phase[b + 1]) % 2

C10_Witness ==
    /\ fpc = "done" /\ ~ffailed
    /\ frate = 1320
    /\ fdata.phase = <<0, -3, 4>>
    /\ fresult = <<1, 1, 1, 1>>

Populated(image) == image # "" /\ image # MissingImage

\* C9: after the waveform is decoded, the request is answered 200 unless a
\* step outside the three sub-steps fails, and a failed sub-step shows only as
\* its fallback: [0, 1, 0, 1], three empty images, the literal tertiary. The
\* images are all populated or all empty.
C9_SubStepFailuresSwallowed ==
    (upc = "done" /\ uwave # NoWave) =>
        /\ uresp.status = 200 <=> ufailed \cap OuterSteps = {}
        /\ uresp.status = 500 <=> ufailed \cap OuterSteps # {}
        /\ uresp.status = 200 =>
              /\ "freq" \in ufailed => uresp.frequency_data = <<0, 1, 0, 1>>
              /\ "spectro" \in ufailed => uresp.spectrograms = EmptyImages
              /\ "tags" \in ufailed =>
                    uresp.ciphers.tertiary = "WLPH_EDVHG_HQFULSWLRQ"
              /\ \/ /\ Populated(uresp.spectrograms.primary)
                    /\ Populated(uresp.spectrograms.high_res)
                    /\ Populated(uresp.spectrograms.phase)
                 \/ uresp.spectrograms = EmptyImages

C9_Witness ==
    /\ upc = "done"
    /\ uresp.status = 200
    /\ ufailed = {"freq", "spectro", "tags"}
    /\ tmpfile = "deleted"

====
